---- MODULE Spec2Model ----
(***************************************************************************)
(* A model of the discord_bot repository: the score store and radar chart  *)
(* of radar_chart_utils.py, the message labeler and ingestion delivery of  *)
(* main.py, and the odd-even-odd number selection of                       *)
(* profile_image_utils.py.                                                 *)
(*                                                                         *)
(* Python strings are modelled as sequences of Unicode code points         *)
(* (integers), Python dicts as functions whose DOMAIN is the key set.      *)
(***************************************************************************)
EXTENDS Integers, Sequences, FiniteSets, TLC

VARIABLES
    store,      \* scores.db: user_id -> row (five axes and updated_at)
    now,        \* number of add_scores calls so far; stands for utcnow()
    out,        \* the last handler: [op, uid, arg, val], val what it returned
    hist,       \* SpecFold: the deltas applied so far, in order
    pc,         \* SpecRace: where each caller of add_scores stands
    args,       \* SpecRace: each caller's (uid, delta)
    cur,        \* SpecRace: each caller's cur_vals, read by get_scores
    store0,     \* SpecRace: the store before the two calls
    inp,        \* the input a pure function is applied to
    res,        \* what it returned
    done,       \* whether it has been applied
    log         \* SpecMsg: one record per message on_message has handled

vars == <<store, now, out, hist, pc, args, cur, store0, inp, res, done, log>>

raceVars == <<pc, args, cur, store0>>

pureVars == <<inp, res, done>>

----------------------------------------------------------------------------
(* Bounds of the model. *)

\* add_scores calls in one behaviour of Spec
MaxOps == 2
\* add_scores calls in one behaviour of SpecFold
MaxSteps == 4

\* user ids the events are about
Users == {1, 2}

----------------------------------------------------------------------------
(* radar_chart_utils.py: settings *)

AXES == <<"topic", "question", "reply", "emotion", "constructive">>

AxisSet == {AXES[i] : i \in 1..Len(AXES)}

THRESHOLDS == <<10, 20, 40, 80, 160>>

\* Python's max(a, b) on integers
Max2(a, b) == IF a >= b THEN a ELSE b

\* Python's max(values) on a non-empty list of integers
MaxOfSeq(s) == CHOOSE m \in {s[i] : i \in 1..Len(s)} : \A i \in 1..Len(s) : s[i] <= m

\* Python's dict.get(k, default)
DictGet(d, k, default) == IF k \in DOMAIN d THEN d[k] ELSE default

\* {k: 0 for k in AXES}
ZeroScores == [k \in AxisSet |-> 0]

\* the five axis columns of a stored row: dict(zip(AXES, row))
RowScores(row) == [k \in AxisSet |-> row[k]]

----------------------------------------------------------------------------
(* radar_chart_utils.py: the score store *)

\* get_scores that inserts the default row it returns (get-or-create)
get_scores_creating(db, uid) ==
    [val |-> IF uid \notin DOMAIN db THEN ZeroScores ELSE RowScores(db[uid]),
     db  |-> IF uid \in DOMAIN db THEN db
             ELSE [u \in DOMAIN db \cup {uid} |->
                      IF u = uid
                      THEN [k \in AxisSet \cup {"updated_at"} |-> 0]
                      ELSE db[u]]]

\* get_scores: a SELECT on a connection of its own; val is the returned dict,
\* db the database after the call (no statement of get_scores writes).
get_scores(db, uid) ==
    [val |-> IF uid \notin DOMAIN db THEN ZeroScores ELSE RowScores(db[uid]),
     db  |-> db]

\* new_vals without the max(0, ...)
FlooredSum_unfloored(cur_vals, delta) ==
    [k \in AxisSet |-> DictGet(cur_vals, k, 0) + DictGet(delta, k, 0)]

\* new_vals of add_scores, from cur_vals and delta
FlooredSum(cur_vals, delta) ==
    [k \in AxisSet |-> Max2(0, DictGet(cur_vals, k, 0) + DictGet(delta, k, 0))]

\* INSERT OR IGNORE: an existing row is left as it is
Upsert_ignoring(db, uid, new_vals, t) ==
    [u \in DOMAIN db \cup {uid} |->
        IF u = uid /\ uid \notin DOMAIN db
        THEN [k \in AxisSet \cup {"updated_at"} |->
                 IF k = "updated_at" THEN t ELSE new_vals[k]]
        ELSE db[u]]

\* INSERT ... ON CONFLICT(user_id) DO UPDATE SET ...: one row per user_id
Upsert(db, uid, new_vals, t) ==
    [u \in DOMAIN db \cup {uid} |->
        IF u = uid
        THEN [k \in AxisSet \cup {"updated_at"} |->
                 IF k = "updated_at" THEN t ELSE new_vals[k]]
        ELSE db[u]]

\* add_scores, run without interruption: read, floor, upsert, return new_vals
add_scores(db, uid, delta, t) ==
    LET cur_vals == get_scores(db, uid).val
        new_vals == FlooredSum(cur_vals, delta)
    IN  [val |-> new_vals, db |-> Upsert(db, uid, new_vals, t)]

----------------------------------------------------------------------------
(* radar_chart_utils.py: the display scale and the radar projection *)

\* the for loop of current_scale_max over THRESHOLDS[i..]
RECURSIVE ScaleFrom(_, _)
ScaleFrom(max_value, i) ==
    IF i > Len(THRESHOLDS) THEN THRESHOLDS[Len(THRESHOLDS)]
    ELSE IF max_value <= THRESHOLDS[i] THEN THRESHOLDS[i]
    ELSE ScaleFrom(max_value, i + 1)

\* current_scale_max with < in place of <=
current_scale_max_strict(max_value) ==
    IF \E i \in 1..Len(THRESHOLDS) : max_value < THRESHOLDS[i]
    THEN THRESHOLDS[CHOOSE i \in 1..Len(THRESHOLDS) :
                        /\ max_value < THRESHOLDS[i]
                        /\ \A j \in 1..(i - 1) : ~(max_value < THRESHOLDS[j])]
    ELSE THRESHOLDS[Len(THRESHOLDS)]

current_scale_max(max_value) == ScaleFrom(max_value, 1)

\* Python's any(values) on a list of integers
AnyNonZero(values) == \E i \in 1..Len(values) : values[i] # 0

\* v / scale, kept exact as the fraction <<numerator, denominator>>
Frac(v, scale) == <<v, scale>>

\* a fraction with a positive denominator compared with 1.0
FracLeqOne(q) == q[1] <= q[2]

\* g * scale for the fraction g
FracMul(q, n) == <<q[1] * n, q[2]>>

\* int(x) for a fraction x >= 0 with a positive denominator
FracInt(q) == q[1] \div q[2]

\* str(n) for an integer n >= 0, as the code points of its decimal numeral
RECURSIVE DecStr(_)
DecStr(n) == IF n < 10 THEN <<48 + n>> ELSE DecStr(n \div 10) \o <<48 + (n % 10)>>

\* the rungs t of THRESHOLDS[i..] with t <= scale, in ladder order
RECURSIVE RungsUpTo(_, _)
RungsUpTo(scale, i) ==
    IF i > Len(THRESHOLDS) THEN << >>
    ELSE (IF THRESHOLDS[i] <= scale THEN <<THRESHOLDS[i]>> ELSE << >>)
             \o RungsUpTo(scale, i + 1)

\* make_radar up to what it hands to the polar axes: values, scale, values_norm
\* (closed by repeating its first point), grid_levels = t/scale per rung
\* t <= scale, the radii g*scale and labels str(int(g*scale)) given to
\* set_rgrids, and the radial limits of set_ylim.  Every rung is 10 times a
\* power of two, so t/scale and (t/scale)*scale are exact in floating point
\* and the fractions here are the floats of the code.
make_radar(scores) ==
    LET values == [i \in 1..Len(AXES) |-> scores[AXES[i]]]
        max_v  == IF AnyNonZero(values) THEN MaxOfSeq(values) ELSE 1
        scale  == current_scale_max(max_v)
        norm   == [i \in 1..Len(AXES) |-> Frac(values[i], scale)]
        rungs  == RungsUpTo(scale, 1)
        grid_levels == [i \in 1..Len(rungs) |-> Frac(rungs[i], scale)]
    IN  [values |-> values, scale |-> scale,
         values_norm |-> norm \o SubSeq(norm, 1, 1),
         grid_levels |-> grid_levels,
         rgrids |-> [i \in 1..Len(rungs) |-> FracMul(grid_levels[i], scale)],
         rlabels |-> [i \in 1..Len(rungs) |->
                         DecStr(FracInt(FracMul(grid_levels[i], scale)))],
         ylim |-> <<0, 1>>]

----------------------------------------------------------------------------
(* radar_chart_utils.py: the bot's handlers, one event loop *)

\* guild members; the ids in Bots have user.bot set
Members == {1, 2, 3}
Bots == {3}

\* the reaction emojis, as code point sequences: thumbs up, question mark,
\* speech balloon, growing heart, hammer-and-wrench with and without the
\* variation selector, party popper
Emojis == {<<128077>>, <<10067>>, <<128172>>, <<128151>>, <<128736, 65039>>,
           <<128736>>, <<127881>>}

EMOJI_MAP ==
    [e \in {<<128077>>, <<10067>>, <<128172>>, <<128151>>, <<128736, 65039>>} |->
        CASE e = <<128077>> -> "topic"
          [] e = <<10067>> -> "question"
          [] e = <<128172>> -> "reply"
          [] e = <<128151>> -> "emotion"
          [] e = <<128736, 65039>> -> "constructive"]

\* the values /eval passes per axis
DeltaVals == {-5, 0, 1, 170}

\* the deltas of /eval: every axis present; one axis gets v, the others w
EvalDeltas ==
    {d \in [AxisSet -> DeltaVals] :
        \E a \in AxisSet, v \in DeltaVals, w \in {0, -5} :
            d = [k \in AxisSet |-> IF k = a THEN v ELSE w]}

\* the delta of on_reaction_add: all zero, then delta[axis] = 1
ReactionDelta(axis) == [k \in AxisSet |-> IF k = axis THEN 1 ELSE 0]

NoOut == [op |-> "none", uid |-> 0, arg |-> ZeroScores, val |-> ZeroScores]

\* on_reaction_add without the return for a bot author of the message
on_reaction_add_any_author(reactor, emoji, author) ==
    /\ IF reactor \in Bots \/ emoji \notin DOMAIN EMOJI_MAP
       THEN /\ out' = [op |-> "reaction_ignored", uid |-> author,
                       arg |-> ZeroScores, val |-> ZeroScores]
            /\ UNCHANGED <<store, now>>
       ELSE LET r == add_scores(store, author, ReactionDelta(EMOJI_MAP[emoji]), now + 1)
            IN  /\ now < MaxOps
                /\ store' = r.db
                /\ now' = now + 1
                /\ out' = [op |-> "reaction", uid |-> author,
                           arg |-> ReactionDelta(EMOJI_MAP[emoji]), val |-> r.val]
    /\ UNCHANGED <<hist, raceVars, pureVars, log>>

\* on_reaction_add(reaction, user): the three early returns, then add_scores
on_reaction_add(reactor, emoji, author) ==
    /\ IF reactor \in Bots \/ emoji \notin DOMAIN EMOJI_MAP \/ author \in Bots
       THEN /\ out' = [op |-> "reaction_ignored", uid |-> author,
                       arg |-> ZeroScores, val |-> ZeroScores]
            /\ UNCHANGED <<store, now>>
       ELSE LET r == add_scores(store, author, ReactionDelta(EMOJI_MAP[emoji]), now + 1)
            IN  /\ now < MaxOps
                /\ store' = r.db
                /\ now' = now + 1
                /\ out' = [op |-> "reaction", uid |-> author,
                           arg |-> ReactionDelta(EMOJI_MAP[emoji]), val |-> r.val]
    /\ UNCHANGED <<hist, raceVars, pureVars, log>>

\* eval_cmd(interaction, user, topic, ...): add_scores with the five options
eval_cmd(user, delta) ==
    /\ now < MaxOps
    /\ LET r == add_scores(store, user, delta, now + 1)
       IN  /\ store' = r.db
           /\ now' = now + 1
           /\ out' = [op |-> "eval", uid |-> user, arg |-> delta, val |-> r.val]
    /\ UNCHANGED <<hist, raceVars, pureVars, log>>

\* radar_cmd: get_scores, then make_radar
radar_cmd(target) ==
    /\ LET g == get_scores(store, target)
       IN  /\ store' = g.db
           /\ out' = [op |-> "radar", uid |-> target, arg |-> ZeroScores,
                      val |-> make_radar(g.val)]
    /\ UNCHANGED <<now>>
    /\ UNCHANGED <<hist, raceVars, pureVars, log>>

\* score_cmd: get_scores, then current_scale_max of the largest axis (0 if none)
score_cmd(target) ==
    /\ LET g == get_scores(store, target)
           vals == [i \in 1..Len(AXES) |-> g.val[AXES[i]]]
           top == IF AnyNonZero(vals) THEN MaxOfSeq(vals) ELSE 0
       IN  /\ store' = g.db
           /\ out' = [op |-> "score", uid |-> target, arg |-> ZeroScores,
                      val |-> [scores |-> g.val, scale |-> current_scale_max(top)]]
    /\ UNCHANGED <<now>>
    /\ UNCHANGED <<hist, raceVars, pureVars, log>>

\* on_ready has run init_db: the scores table exists and is empty
Init ==
    /\ store = << >>
    /\ now = 0
    /\ out = NoOut
    /\ hist = << >>
    /\ pc = << >>
    /\ args = << >>
    /\ cur = << >>
    /\ store0 = << >>
    /\ inp = << >>
    /\ res = << >>
    /\ done = FALSE
    /\ log = << >>

Next ==
    \/ \E reactor \in Members, emoji \in Emojis, author \in Members :
           on_reaction_add(reactor, emoji, author)
    \/ \E user \in Members, delta \in EvalDeltas : eval_cmd(user, delta)
    \/ \E target \in Members : radar_cmd(target)
    \/ \E target \in Members : score_cmd(target)

Spec == Init /\ [][Next]_vars

----------------------------------------------------------------------------
(* add_scores applied serially to one user who has no record yet *)

\* the user the deltas go to
FoldUser == 1

\* a delta dict holding the one key axis
OneKey(axis, v) == [k \in {axis} |-> v]

\* the deltas applied: dicts with one key, and one dict with two keys
FoldDeltas ==
    {OneKey(a, v) : a \in {"topic", "emotion"}, v \in {-5, 1, 3}}
        \cup {[k \in {"topic", "question"} |-> IF k = "topic" THEN 1 ELSE -5]}

\* one call add_scores(FoldUser, delta), which returns before the next starts
AddStep(delta) ==
    /\ Len(hist) < MaxSteps
    /\ LET r == add_scores(store, FoldUser, delta, now + 1)
       IN  /\ store' = r.db
           /\ now' = now + 1
           /\ out' = [op |-> "add_scores", uid |-> FoldUser, arg |-> delta,
                      val |-> r.val]
    /\ hist' = Append(hist, delta)
    /\ UNCHANGED <<raceVars, pureVars, log>>

InitFold == Init

NextFold == \E delta \in FoldDeltas : AddStep(delta)

SpecFold == InitFold /\ [][NextFold]_vars

----------------------------------------------------------------------------
(* Two callers of add_scores on the same scores.db.  get_scores closes its  *)
(* connection before the upsert opens one, and no transaction or lock spans *)
(* the two, so another caller's statements can run between them.            *)

Callers == {1, 2}

\* the deltas of the two calls
RaceDeltas ==
    {OneKey("topic", 1), OneKey("topic", -5), OneKey("question", 1),
     [k \in AxisSet |-> 2]}

\* rows the store can hold when the calls start
RaceStores ==
    {Upsert([u \in {2} |-> [k \in AxisSet \cup {"updated_at"} |-> 0]], 1,
            [k \in AxisSet |-> IF k = "topic" THEN v ELSE 0], 0) : v \in {0, 3}}

\* line 50 of add_scores: the call starts and now is taken from the clock
AddNow(c, uid, delta) ==
    /\ pc[c] = "idle"
    /\ args' = [args EXCEPT ![c] = [uid |-> uid, delta |-> delta, t |-> now + 1]]
    /\ now' = now + 1
    /\ pc' = [pc EXCEPT ![c] = "timed"]
    /\ UNCHANGED <<store, out, hist, cur, store0, pureVars, log>>

\* line 51 of add_scores: get_scores reads cur_vals
AddRead(c) ==
    /\ pc[c] = "timed"
    /\ LET g == get_scores(store, args[c].uid)
       IN  /\ cur' = [cur EXCEPT ![c] = g.val]
           /\ store' = g.db
    /\ pc' = [pc EXCEPT ![c] = "read"]
    /\ UNCHANGED <<now, out, hist, args, store0, pureVars, log>>

\* lines 52-62 of add_scores: new_vals from the cur_vals read, the upsert, return
AddWrite(c) ==
    /\ pc[c] = "read"
    /\ LET new_vals == FlooredSum(cur[c], args[c].delta)
       IN  /\ store' = Upsert(store, args[c].uid, new_vals, args[c].t)
           /\ out' = [op |-> "add_scores", uid |-> args[c].uid,
                      arg |-> args[c].delta, val |-> new_vals]
    /\ pc' = [pc EXCEPT ![c] = "done"]
    /\ UNCHANGED <<now, hist, args, cur, store0, pureVars, log>>

InitRace ==
    /\ store \in RaceStores
    /\ store0 = store
    /\ now = 0
    /\ out = NoOut
    /\ hist = << >>
    /\ pc = [c \in Callers |-> "idle"]
    /\ args = [c \in Callers |-> [uid |-> 0, delta |-> ZeroScores, t |-> 0]]
    /\ cur = [c \in Callers |-> ZeroScores]
    /\ inp = << >>
    /\ res = << >>
    /\ done = FALSE
    /\ log = << >>

NextRace ==
    \/ \E c \in Callers, uid \in Users, delta \in RaceDeltas : AddNow(c, uid, delta)
    \/ \E c \in Callers : AddRead(c)
    \/ \E c \in Callers : AddWrite(c)

SpecRace == InitRace /\ [][NextRace]_vars

----------------------------------------------------------------------------
(* Properties of the score store under Spec *)

\* C1: every stored axis value of every user is an integer >= 0, and so is
\* every axis of the dict the last add_scores call returned, whatever the
\* signs of the deltas were.
C1_AxesNonNegative ==
    /\ \A u \in DOMAIN store : \A k \in AxisSet : store[u][k] \in Nat
    /\ out.op \in {"eval", "reaction"} => \A k \in AxisSet : out.val[k] \in Nat

\* a negative delta met a smaller stored value and the axis was floored at 0
C1_Witness ==
    /\ out.op = "eval"
    /\ \E k \in AxisSet : out.arg[k] < 0 /\ out.val[k] = 0 /\ store[out.uid][k] = 0
    /\ \E k \in AxisSet : out.arg[k] > 0 /\ out.val[k] > 0

\* C4: a handler that only reads (score_cmd, radar_cmd: get_scores and no
\* add_scores) leaves every row of the store as it was and creates none; the
\* scores it read are all zero for a user without a row and the five stored
\* values for a user with one.
C4_GetScoresFrame ==
    [][out'.op \in {"score", "radar"} =>
          /\ store' = store
          /\ out'.op = "score" =>
                /\ out'.uid \notin DOMAIN store =>
                      /\ out'.val.scores = ZeroScores
                      /\ out'.uid \notin DOMAIN store'
                /\ out'.uid \in DOMAIN store =>
                      out'.val.scores = RowScores(store[out'.uid])]_vars

\* scores were read for a user without a row while other users have rows,
\* and no row was made
C4_Witness ==
    /\ out.op = "score"
    /\ out.uid \notin DOMAIN store
    /\ DOMAIN store # {}
    /\ out.val.scores = ZeroScores

\* C5: in every radar chart made of a stored record, each of the five
\* normalised values values[i]/scale is <= 1.0.
C5_NormalisedAtMostOne ==
    out.op = "radar" =>
        \A i \in 1..Len(AXES) : FracLeqOne(out.val.values_norm[i])

\* C11: in every radar chart the gridlines are those of the ladder rungs
\* <= scale and of no other rung, in ladder order, each labelled with the
\* decimal numeral of its rung, and each placed at radius rung/scale, which
\* lies in the visible radial range ylim = [0, 1] (the rung equal to scale
\* on the outer ring, at radius 1).
C11_GridlinesAtRungOverScale ==
    out.op = "radar" =>
        LET r == out.val
            Numeral == [t \in {10, 20, 40, 80, 160} |->
                           CASE t = 10 -> <<49, 48>>
                             [] t = 20 -> <<50, 48>>
                             [] t = 40 -> <<52, 48>>
                             [] t = 80 -> <<56, 48>>
                             [] t = 160 -> <<49, 54, 48>>]
            Drawn == {t \in {10, 20, 40, 80, 160} : t <= r.scale}
        IN  /\ Len(r.rgrids) = Cardinality(Drawn)
            /\ Len(r.rlabels) = Len(r.rgrids)
            /\ {r.rlabels[i] : i \in 1..Len(r.rlabels)} = {Numeral[t] : t \in Drawn}
            /\ \A i \in 1..Len(r.rgrids) :
                  \E t \in Drawn :
                      /\ r.rlabels[i] = Numeral[t]
                      /\ r.rgrids[i][1] * r.scale = t * r.rgrids[i][2]
                      /\ r.ylim[1] * r.rgrids[i][2] <= r.rgrids[i][1]
                      /\ r.rgrids[i][1] <= r.ylim[2] * r.rgrids[i][2]
                      /\ t = r.scale => r.rgrids[i][1] = r.rgrids[i][2]

\* C12: a step of on_reaction_add changes at most one axis of one user.  With
\* a reactor who is no bot, one of the five mapped emojis and a message author
\* who is no bot, the mapped axis of the author's record (0 when the author
\* has no row yet) grows by 1, the author's other four axes keep their values
\* and every other user's row is as before; with a bot reactor, an unmapped
\* emoji or a bot author the store is as before.
C12_ReactionChangesOneAxis ==
    [][out'.op \in {"reaction", "reaction_ignored"} =>
          \A author \in Members : author = out'.uid =>
              /\ \/ store' = store
                 \/ \A reactor \in Members, emoji \in Emojis :
                       on_reaction_add(reactor, emoji, author) =>
                           reactor \notin Bots /\ emoji \in DOMAIN EMOJI_MAP /\ author \notin Bots
              /\ \A reactor \in Members \ Bots, emoji \in DOMAIN EMOJI_MAP :
                    (/\ author \notin Bots
                     /\ out'.op = "reaction"
                     /\ out'.arg = ReactionDelta(EMOJI_MAP[emoji])
                     /\ on_reaction_add(reactor, emoji, author)) =>
                        LET before == IF author \in DOMAIN store
                                      THEN RowScores(store[author]) ELSE ZeroScores
                        IN  /\ DOMAIN store' = DOMAIN store \cup {author}
                            /\ store'[author][EMOJI_MAP[emoji]] = before[EMOJI_MAP[emoji]] + 1
                            /\ \A k \in AxisSet \ {EMOJI_MAP[emoji]} :
                                  store'[author][k] = before[k]
                            /\ \A u \in DOMAIN store \ {author} : store'[u] = store[u]]_vars

\* a reaction has been credited to a user with a row while another user has
\* a row with a positive axis
C12_Witness ==
    /\ out.op = "reaction"
    /\ \E k \in AxisSet : out.arg[k] = 1 /\ store[out.uid][k] >= 1
    /\ \E u \in DOMAIN store \ {out.uid} : \E k \in AxisSet : store[u][k] > 0

----------------------------------------------------------------------------
(* Properties of add_scores applied twice at once, under SpecRace *)

\* C2: once two add_scores calls for the same user have both returned, the
\* stored axes are those of applying the two deltas one after the other, in
\* one of the two orders, to the record the calls found, flooring at each step.
C2_NoLostUpdate ==
    (/\ \A c \in Callers : pc[c] = "done"
     /\ args[1].uid = args[2].uid) =>
        LET uid == args[1].uid
            r0 == get_scores(store0, uid).val
            d1 == args[1].delta
            d2 == args[2].delta
        IN  RowScores(store[uid]) \in
                {FlooredSum(FlooredSum(r0, d1), d2), FlooredSum(FlooredSum(r0, d2), d1)}

----------------------------------------------------------------------------
(* Properties of add_scores applied serially, under SpecFold *)

\* the claimed value of an axis after the first i deltas of h:
\* v_0 = 0, v_i = max(0, v_(i-1) + d_i[axis]), an absent axis counting as 0
RECURSIVE FoldValue(_, _, _)
FoldValue(h, axis, i) ==
    IF i = 0 THEN 0
    ELSE LET prev == FoldValue(h, axis, i - 1)
             d == IF axis \in DOMAIN h[i] THEN h[i][axis] ELSE 0
         IN  IF prev + d < 0 THEN 0 ELSE prev + d

\* the sum of an axis over the first i deltas of h
RECURSIVE SumValue(_, _, _)
SumValue(h, axis, i) ==
    IF i = 0 THEN 0
    ELSE SumValue(h, axis, i - 1)
            + (IF axis \in DOMAIN h[i] THEN h[i][axis] ELSE 0)

\* C3: after every step of a serial sequence of add_scores calls on a fresh
\* user, each stored axis and each returned axis equals the fold with the
\* floor applied at every step; {topic:+1}, {topic:+1}, {topic:-5} leaves
\* topic = 0 and {topic:-5}, {topic:+3} leaves topic = 3.
C3_FoldWithFloorEachStep ==
    /\ Len(hist) = 0 => FoldUser \notin DOMAIN store
    /\ Len(hist) > 0 =>
          /\ FoldUser \in DOMAIN store
          /\ \A k \in AxisSet :
                /\ store[FoldUser][k] = FoldValue(hist, k, Len(hist))
                /\ out.val[k] = FoldValue(hist, k, Len(hist))
    /\ hist = <<OneKey("topic", 1), OneKey("topic", 1), OneKey("topic", -5)>>
          => store[FoldUser]["topic"] = 0
    /\ hist = <<OneKey("topic", -5), OneKey("topic", 3)>>
          => store[FoldUser]["topic"] = 3

\* a sequence whose floor mid-way makes the stored value differ from
\* max(0, sum of the deltas)
C3_Witness ==
    /\ Len(hist) >= 2
    /\ FoldUser \in DOMAIN store
    /\ SumValue(hist, "topic", Len(hist)) < 0
    /\ store[FoldUser]["topic"] > 0
    /\ store[FoldUser]["question"] = 0

----------------------------------------------------------------------------
(* current_scale_max on its own, under SpecScale *)

\* the largest axis value tried, besides 1000
MaxValue == 170

ScaleStep ==
    /\ ~done
    /\ res' = current_scale_max(inp)
    /\ done' = TRUE
    /\ UNCHANGED <<store, now, out, hist, raceVars, inp, log>>

InitScale ==
    /\ inp \in (0..MaxValue) \cup {1000}
    /\ res = 0
    /\ done = FALSE
    /\ store = << >>
    /\ now = 0
    /\ out = NoOut
    /\ hist = << >>
    /\ pc = << >>
    /\ args = << >>
    /\ cur = << >>
    /\ store0 = << >>
    /\ log = << >>

NextScale == ScaleStep

SpecScale == InitScale /\ [][NextScale]_vars

\* C6: for a non-negative integer m, current_scale_max(m) is the first rung
\* of the ladder 10, 20, 40, 80, 160 that is >= m, and 160 when no rung is;
\* it is a rung, never 0, non-decreasing in m, and 0, 10, 11, 1000 give
\* 10, 10, 20, 160.
C6_FirstRungAtLeast ==
    done =>
        LET Ladder == {10, 20, 40, 80, 160}
            Above == {r \in Ladder : r >= inp}
        IN  /\ res \in Ladder
            /\ res # 0
            /\ Above # {} => res \in Above /\ \A r \in Above : res <= r
            /\ Above = {} => res = 160
            /\ inp = 0 => res = 10
            /\ inp = 10 => res = 10
            /\ inp = 11 => res = 20
            /\ inp = 1000 => res = 160
            /\ \A m \in 0..inp : current_scale_max(m) <= res

\* the scale of a value above every rung has been computed: the top rung
C6_Witness ==
    /\ done
    /\ inp = 1000
    /\ res = 160

----------------------------------------------------------------------------
(* profile_image_utils.py: select_odd_even_odd, under SpecSel *)

\* the longest input list
MaxLen == 4

\* the integers the lists are made of
NumVals == {-3, 0, 1, 3, 4, 6}

\* Python's n % 2 == 1 (the remainder is 0 or 1, also for negative n)
IsOddPy(n) == n % 2 = 1

IsEvenPy(n) == n % 2 = 0

\* Python's s[:n]
Take(s, n) == SubSeq(s, 1, IF Len(s) < n THEN Len(s) ELSE n)

\* select_odd_even_odd that tests the two-number pattern first
select_odd_even_odd_short(nums) ==
    LET odds == SelectSeq(nums, IsOddPy)
        evens == SelectSeq(nums, IsEvenPy)
    IN  IF Len(odds) >= 1 /\ Len(evens) >= 1 THEN <<odds[1], evens[1]>>
        ELSE IF Len(odds) >= 2 THEN Take(odds, 2)
        ELSE Take(nums, 3)

\* select_odd_even_odd that repeats odds[0] in the third place
select_odd_even_odd_repeat(nums) ==
    LET odds == SelectSeq(nums, IsOddPy)
        evens == SelectSeq(nums, IsEvenPy)
    IN  IF Len(odds) >= 2 /\ Len(evens) >= 1 THEN <<odds[1], evens[1], odds[1]>>
        ELSE IF Len(odds) >= 1 /\ Len(evens) >= 1 THEN <<odds[1], evens[1]>>
        ELSE IF Len(odds) >= 2 THEN Take(odds, 2)
        ELSE Take(nums, 3)

\* select_odd_even_odd returning the two odd numbers of its first branch in
\* the opposite order
select_odd_even_odd_swapped(nums) ==
    LET odds  == SelectSeq(nums, IsOddPy)
        evens == SelectSeq(nums, IsEvenPy)
    IN  IF Len(odds) >= 2 /\ Len(evens) >= 1 THEN <<odds[2], evens[1], odds[1]>>
        ELSE IF Len(odds) >= 1 /\ Len(evens) >= 1 THEN <<odds[1], evens[1]>>
        ELSE IF Len(odds) >= 2 THEN Take(odds, 2)
        ELSE Take(nums, 3)

\* select_odd_even_odd: nums are integers already, so int(n) changes nothing;
\* odds and evens keep the input order; then the four branches (indices from 1)
select_odd_even_odd(nums) ==
    LET odds == SelectSeq(nums, IsOddPy)
        evens == SelectSeq(nums, IsEvenPy)
    IN  IF Len(odds) >= 2 /\ Len(evens) >= 1 THEN <<odds[1], evens[1], odds[2]>>
        ELSE IF Len(odds) >= 1 /\ Len(evens) >= 1 THEN <<odds[1], evens[1]>>
        ELSE IF Len(odds) >= 2 THEN Take(odds, 2)
        ELSE Take(nums, 3)

SelectStep ==
    /\ ~done
    /\ res' = select_odd_even_odd(inp)
    /\ done' = TRUE
    /\ UNCHANGED <<store, now, out, hist, raceVars, inp, log>>

InitSel ==
    /\ inp \in UNION {[1..n -> NumVals] : n \in 0..MaxLen}
    /\ res = << >>
    /\ done = FALSE
    /\ store = << >>
    /\ now = 0
    /\ out = NoOut
    /\ hist = << >>
    /\ pc = << >>
    /\ args = << >>
    /\ cur = << >>
    /\ store0 = << >>
    /\ log = << >>

NextSel == SelectStep

SpecSel == InitSel /\ [][NextSel]_vars

\* the positions of nums holding an odd (parity = 1) or even (parity = 0) value
PositionsOf(nums, parity) ==
    {i \in 1..Len(nums) : (IF nums[i] % 2 # 0 THEN 1 ELSE 0) = parity}

\* the least element of a non-empty set of positions
Least(S) == CHOOSE i \in S : \A j \in S : i <= j

\* whether p is a prefix of s
IsPrefix(p, s) == Len(p) <= Len(s) /\ SubSeq(s, 1, Len(p)) = p

\* whether the pattern cannot be met: no branch but the fallback applies
FallbackCase(nums) ==
    LET O == PositionsOf(nums, 1)
        E == PositionsOf(nums, 0)
    IN  ~(O # {} /\ E # {}) /\ Cardinality(O) < 2

\* C7: select_odd_even_odd follows the cascade, with odd[k] and even[k] the
\* k-th odd and even value in input order: two odds and an even give
\* [odd[0], even[0], odd[1]]; else an odd and an even give [odd[0], even[0]];
\* else two odds give [odd[0], odd[1]]; else the first up to 3 values as they
\* are. The empty list gives the empty list and [4, 1, 6, 3] gives [1, 4, 3].
C7_Cascade ==
    done =>
        LET O == PositionsOf(inp, 1)
            E == PositionsOf(inp, 0)
            n == IF Len(inp) < 3 THEN Len(inp) ELSE 3
        IN  /\ (Cardinality(O) >= 2 /\ E # {}) =>
                  res = <<inp[Least(O)], inp[Least(E)], inp[Least(O \ {Least(O)})]>>
            /\ (Cardinality(O) = 1 /\ E # {}) =>
                  res = <<inp[Least(O)], inp[Least(E)]>>
            /\ (Cardinality(O) >= 2 /\ E = {}) =>
                  res = <<inp[Least(O)], inp[Least(O \ {Least(O)})]>>
            /\ (O = {} \/ (Cardinality(O) = 1 /\ E = {})) =>
                  res = [i \in 1..n |-> inp[i]]
            /\ inp = << >> => res = << >>
            /\ inp = <<4, 1, 6, 3>> => res = <<1, 4, 3>>

\* the list [4, 1, 6, 3] has been selected from
C7_Witness ==
    /\ done
    /\ inp = <<4, 1, 6, 3>>
    /\ res = <<1, 4, 3>>

\* C8 as claimed: the result has at most 3 values, taken from distinct
\* positions of the input in increasing order of position (it is a
\* subsequence of the input); the fallback gives a prefix of the input and a
\* patterned branch a result starting with an odd value.
C8_SubsequenceOfInput ==
    done =>
        /\ Len(res) <= 3
        /\ \E f \in [1..Len(res) -> 1..Len(inp)] :
              /\ \A i \in 1..Len(res) : inp[f[i]] = res[i]
              /\ \A i, j \in 1..Len(res) : i < j => f[i] < f[j]
        /\ FallbackCase(inp) => IsPrefix(res, inp)
        /\ ~FallbackCase(inp) => Len(res) >= 2 /\ res[1] % 2 # 0

\* C8 as amended: the result has at most 3 values, taken from distinct
\* positions of the input; values of the same parity keep their input order
\* and are the first of their parity (the odd values of the result are a
\* prefix of the odd values of the input, and so for the even values), while
\* an even value may follow an odd value that comes after it in the input;
\* the fallback gives a prefix of the input and a patterned branch a result
\* starting with an odd value.
C8_OrderWithinParity ==
    done =>
        /\ Len(res) <= 3
        /\ \E f \in [1..Len(res) -> 1..Len(inp)] :
              /\ \A i \in 1..Len(res) : inp[f[i]] = res[i]
              /\ \A i, j \in 1..Len(res) : i # j => f[i] # f[j]
              /\ \A i, j \in 1..Len(res) :
                    (i < j /\ res[i] % 2 = res[j] % 2) => f[i] < f[j]
        /\ \A parity \in {0, 1} :
              LET Pick(s) == [k \in 1..Cardinality(PositionsOf(s, parity)) |->
                                 s[CHOOSE i \in PositionsOf(s, parity) :
                                     Cardinality({j \in PositionsOf(s, parity) : j < i}) = k - 1]]
              IN  IsPrefix(Pick(res), Pick(inp))
        /\ FallbackCase(inp) => IsPrefix(res, inp)
        /\ ~FallbackCase(inp) => Len(res) >= 2 /\ res[1] % 2 # 0

\* a patterned result whose even value precedes its first odd value in the
\* input, from an input with two equal odd values
C8_Witness ==
    /\ done
    /\ Len(inp) = 4
    /\ inp[1] % 2 = 0
    /\ Len(res) = 3
    /\ res[2] = inp[1]
    /\ res[1] = res[3]

----------------------------------------------------------------------------
(* main.py: naive_label, under SpecLabel.  A text is its sequence of code   *)
(* points.                                                                  *)

\* the most fragments a text is put together from
MaxFrags == 3

\* what \s and str.strip() take for whitespace
IsSpace(c) ==
    c \in {9, 10, 11, 12, 13, 28, 29, 30, 31, 32, 133, 160, 5760, 8232, 8233,
           8239, 8287, 12288} \cup (8192..8202)

\* the code point of the digit zero of every script with decimal digits
\* (Unicode category Nd); the digits one to nine follow their zero
DigitZeros ==
    {48, 1632, 1776, 1984, 2406, 2534, 2662, 2790, 2918, 3046, 3174, 3302,
     3430, 3558, 3664, 3792, 3872, 4160, 4240, 6112, 6160, 6470, 6608, 6784,
     6800, 6992, 7088, 7232, 7248, 42528, 43216, 43264, 43472, 43504, 43600,
     44016, 65296, 66720, 68912, 69734, 69872, 69942, 70096, 70384, 70736,
     70864, 71248, 71360, 71472, 71904, 72016, 72784, 73040, 73120, 92768,
     92864, 93008, 120782, 120792, 120802, 120812, 120822, 123200, 123632,
     125264, 130032}

\* what \d takes for a digit in a str pattern: every Unicode decimal digit
IsDigit(c) == \E z \in DigitZeros : c \in z..(z + 9)

\* Python's w in t
Contains(t, w) ==
    \E i \in 1..(Len(t) - Len(w) + 1) : SubSeq(t, i, i + Len(w) - 1) = w

\* whether t[i..] begins with w
StartsAt(t, i, w) == i + Len(w) - 1 <= Len(t) /\ SubSeq(t, i, i + Len(w) - 1) = w

\* url_re.search(t): http, an optional s, ://, then at least one non-space
url_search(t) ==
    \E i \in 1..Len(t) :
        \E j \in {i + 7, i + 8} :
            /\ \/ j = i + 7 /\ StartsAt(t, i, <<104, 116, 116, 112, 58, 47, 47>>)
               \/ j = i + 8 /\ StartsAt(t, i, <<104, 116, 116, 112, 115, 58, 47, 47>>)
            /\ j <= Len(t)
            /\ ~IsSpace(t[j])

\* number_re.search(t): an optional sign, then at least one digit (what may
\* follow is optional)
number_search(t) ==
    \E i \in 1..Len(t) :
        LET j == IF t[i] \in {45, 43} THEN i + 1 ELSE i
        IN  j <= Len(t) /\ IsDigit(t[j])

\* Python's t.strip()
RECURSIVE LStrip(_)
LStrip(t) == IF Len(t) > 0 /\ IsSpace(t[1]) THEN LStrip(Tail(t)) ELSE t

RECURSIVE RStrip(_)
RStrip(t) ==
    IF Len(t) > 0 /\ IsSpace(t[Len(t)]) THEN RStrip(SubSeq(t, 1, Len(t) - 1)) ELSE t

Strip(t) == RStrip(LStrip(t))

\* Python's t.endswith(w)
EndsWith(t, w) == Len(w) <= Len(t) /\ SubSeq(t, Len(t) - Len(w) + 1, Len(t)) = w

\* the full-width and the ASCII question mark
QuestionMarks == {<<65311>>, <<63>>}

\* the particle ka
Particle == <<12363>>

\* sansei, doui, ryoukai, tashikani, wakaru, iine
AgreeWords ==
    {<<36059, 25104>>, <<21516, 24847>>, <<20102, 35299>>,
     <<12383, 12375, 12363, 12395>>, <<12431, 12363, 12427>>,
     <<12356, 12356, 12397>>}

\* ureshii, kanashii, ikari, tanoshii, saikou, saiaku, kusa, warai
EmotionWords ==
    {<<23305, 12375, 12356>>, <<24754, 12375, 12356>>, <<24594>>,
     <<27005, 12375, 12356>>, <<26368, 39640>>, <<26368, 24746>>, <<33609>>,
     <<31505>>}

\* naive_label with the question rule ahead of the URL-or-number rule
naive_label_question_first(text) ==
    LET t == text
    IN  IF (\E q \in QuestionMarks : Contains(t, q)) \/ EndsWith(Strip(t), Particle)
        THEN "Q"
        ELSE IF url_search(t) \/ number_search(t) THEN "S"
        ELSE IF \E w \in AgreeWords : Contains(t, w) THEN "AG"
        ELSE IF \E w \in EmotionWords : Contains(t, w) THEN "EM"
        ELSE IF Len(t) > 0 /\ Len(t) < 20 THEN "CH"
        ELSE "TP"

\* naive_label: t = text or "", then the five tests in order
naive_label(text) ==
    LET t == text
    IN  IF url_search(t) \/ number_search(t) THEN "S"
        ELSE IF (\E q \in QuestionMarks : Contains(t, q)) \/ EndsWith(Strip(t), Particle)
        THEN "Q"
        ELSE IF \E w \in AgreeWords : Contains(t, w) THEN "AG"
        ELSE IF \E w \in EmotionWords : Contains(t, w) THEN "EM"
        ELSE IF Len(t) > 0 /\ Len(t) < 20 THEN "CH"
        ELSE "TP"

\* the pieces the texts are put together from: "http://", "https://", "x",
\* a space, a newline, "1", the Arabic-Indic digit three, "?", the full-width
\* "?", ka, sansei, iine, ikari, warai, and nineteen times "a"
Fragments ==
    {<<104, 116, 116, 112, 58, 47, 47>>, <<104, 116, 116, 112, 115, 58, 47, 47>>,
     <<120>>, <<32>>, <<10>>, <<49>>, <<1635>>, <<63>>, <<65311>>, <<12363>>,
     <<36059, 25104>>, <<12356, 12356, 12397>>, <<24594>>, <<31505>>,
     [i \in 1..19 |-> 97]}

\* the concatenation of a sequence of texts
RECURSIVE Concat(_)
Concat(ss) == IF Len(ss) = 0 THEN << >> ELSE Head(ss) \o Concat(Tail(ss))

LabelStep ==
    /\ ~done
    /\ res' = naive_label(inp)
    /\ done' = TRUE
    /\ UNCHANGED <<store, now, out, hist, raceVars, inp, log>>

InitLabel ==
    /\ inp \in {Concat(ss) : ss \in UNION {[1..n -> Fragments] : n \in 0..MaxFrags}}
    /\ res = ""
    /\ done = FALSE
    /\ store = << >>
    /\ now = 0
    /\ out = NoOut
    /\ hist = << >>
    /\ pc = << >>
    /\ args = << >>
    /\ cur = << >>
    /\ store0 = << >>
    /\ log = << >>

NextLabel == LabelStep

SpecLabel == InitLabel /\ [][NextLabel]_vars

\* the label the cascade of C9 gives, ends being what "ends with the
\* particle" is taken to mean
CascadeLabel(t, ends) ==
    CASE url_search(t) \/ number_search(t) -> "S"
      [] ~(url_search(t) \/ number_search(t))
         /\ ((\E q \in QuestionMarks : Contains(t, q)) \/ ends) -> "Q"
      [] OTHER ->
            IF \E w \in AgreeWords : Contains(t, w) THEN "AG"
            ELSE IF \E w \in EmotionWords : Contains(t, w) THEN "EM"
            ELSE IF t # << >> /\ Len(t) <= 19 THEN "CH"
            ELSE "TP"

\* C9 as claimed: naive_label returns one of the six labels, the first rule
\* that matches deciding: a URL or number gives S; else a question mark, or
\* the text ending with the particle ka, gives Q; else an agreement word AG;
\* else an emotion word EM; else 1 to 19 characters CH; else TP.
C9_CascadeLiteralEnd ==
    done =>
        /\ res \in {"S", "Q", "AG", "EM", "CH", "TP"}
        /\ res = CascadeLabel(inp, Len(inp) > 0 /\ inp[Len(inp)] = 12363)

\* C9 as amended: the same cascade, the text ending with the particle ka
\* once the whitespace around it is stripped; a URL with a question mark
\* gives S and the empty text TP.
C9_CascadeStrippedEnd ==
    done =>
        /\ res \in {"S", "Q", "AG", "EM", "CH", "TP"}
        /\ res = CascadeLabel(inp, EndsWith(Strip(inp), Particle))
        /\ inp = << >> => res = "TP"
        /\ (url_search(inp) /\ Contains(inp, <<63>>)) => res = "S"

\* a text with a URL and a question mark has been labelled S
C9_Witness ==
    /\ done
    /\ url_search(inp)
    /\ ~number_search(inp)
    /\ Contains(inp, <<63>>)
    /\ res = "S"

----------------------------------------------------------------------------
(* main.py: post_json and on_message, under SpecMsg *)

\* the most messages one behaviour handles
MaxMsgs == 3

\* what the one session.post of post_json meets: a response with a status,
\* a network error, a timeout of the 15 s total, or a response whose body
\* cannot be read
Outcomes ==
    {[kind |-> "response", status |-> st] : st \in {200, 299, 300, 500}}
        \cup {[kind |-> k, status |-> 0] : k \in {"network_error", "timeout"}}
        \cup {[kind |-> "body_error", status |-> 500]}

\* the try block of post_json: one POST; raised says whether an exception
\* leaves the block, logged what the block logged
PostBody(outcome) ==
    IF outcome.kind \in {"network_error", "timeout"}
    THEN [attempts |-> 1, raised |-> TRUE, logged |-> "none"]
    ELSE IF outcome.status >= 300
         THEN IF outcome.kind = "body_error"
              THEN [attempts |-> 1, raised |-> TRUE, logged |-> "none"]
              ELSE [attempts |-> 1, raised |-> FALSE, logged |-> "warning"]
         ELSE [attempts |-> 1, raised |-> FALSE, logged |-> "debug"]

\* post_json without its except clause
post_json_uncaught(outcome) == PostBody(outcome)

\* post_json: the try block, and except Exception, which logs and returns
post_json(outcome) ==
    LET b == PostBody(outcome)
    IN  IF b.raised
        THEN [attempts |-> b.attempts, raised |-> FALSE, logged |-> "exception"]
        ELSE b

\* on_message up to its first wait: return for a bot author; else build the
\* payload (the label is naive_label of the content) and enter post_json,
\* which issues its one session.post and waits for the response
on_message(author_bot, content) ==
    /\ Len(log) < MaxMsgs
    /\ log' = Append(log, [bot |-> author_bot,
                           label |-> IF author_bot THEN "" ELSE naive_label(content),
                           outcome |-> [kind |-> "none", status |-> 0],
                           posts |-> IF author_bot THEN 0 ELSE 1,
                           raised |-> FALSE, logged |-> "none", processed |-> FALSE,
                           phase |-> IF author_bot THEN "returned" ELSE "posting"])
    /\ UNCHANGED <<store, now, out, hist, raceVars, pureVars>>

\* the try block of post_json has run for message i up to the end of the two
\* async with blocks: what it logged is logged, and leaving the blocks waits
\* for the response and the session to close
BeforeExit(i, outcome) ==
    [log EXCEPT ![i] = [@ EXCEPT !.outcome = outcome, !.logged = PostBody(outcome).logged,
                                 !.phase = "closing"]]

\* the POST of message i ends: with a status >= 300 post_json waits for the
\* body of the response; with a lower status it logs, and with a network
\* error or a timeout the exception is on its way, and the blocks are left
PostResponse(i, outcome) ==
    /\ log[i].phase = "posting"
    /\ IF outcome.kind \in {"response", "body_error"} /\ outcome.status >= 300
       THEN log' = [log EXCEPT ![i] = [@ EXCEPT !.outcome = outcome, !.phase = "reading"]]
       ELSE log' = BeforeExit(i, outcome)
    /\ UNCHANGED <<store, now, out, hist, raceVars, pureVars>>

\* await resp.text() of message i ends, with the body, which is logged, or
\* with an exception, and the blocks are left
PostText(i) ==
    /\ log[i].phase = "reading"
    /\ log' = BeforeExit(i, log[i].outcome)
    /\ UNCHANGED <<store, now, out, hist, raceVars, pureVars>>

\* the response and the session of message i are closed: an exception on its
\* way meets except Exception, post_json ends and the rest of on_message
\* runs, which is bot.process_commands unless the exception left post_json
PostExit(i) ==
    /\ log[i].phase = "closing"
    /\ LET r == post_json(log[i].outcome)
       IN  log' = [log EXCEPT ![i] = [@ EXCEPT !.raised = r.raised, !.logged = r.logged,
                                               !.processed = ~r.raised,
                                               !.phase = "finished"]]
    /\ UNCHANGED <<store, now, out, hist, raceVars, pureVars>>

\* the contents of the messages: empty, and "1?"
Contents == {<< >>, <<49, 63>>}

InitMsg ==
    /\ log = << >>
    /\ inp = << >>
    /\ res = << >>
    /\ done = FALSE
    /\ store = << >>
    /\ now = 0
    /\ out = NoOut
    /\ hist = << >>
    /\ pc = << >>
    /\ args = << >>
    /\ cur = << >>
    /\ store0 = << >>

NextMsg ==
    \/ \E author_bot \in BOOLEAN, content \in Contents : on_message(author_bot, content)
    \/ \E i \in 1..Len(log), outcome \in Outcomes : PostResponse(i, outcome)
    \/ \E i \in 1..Len(log) : PostText(i)
    \/ \E i \in 1..Len(log) : PostExit(i)

SpecMsg == InitMsg /\ [][NextMsg]_vars

\* C10: for every message of a non-bot author on_message makes exactly one
\* POST, and once post_json has ended, whether the POST succeeded, got a
\* status >= 300, or met a network error or timeout, it has returned without
\* raising and on_message has gone on to bot.process_commands; for a bot
\* author there is no POST.
C10_DeliveryFailureNonFatal ==
    \A i \in 1..Len(log) :
        /\ ~log[i].bot =>
              /\ log[i].posts = 1
              /\ ~log[i].raised
              /\ log[i].phase = "finished" => log[i].processed
              /\ log[i].processed => log[i].phase = "finished"
        /\ log[i].bot => log[i].posts = 0 /\ ~log[i].processed

\* a network error, a status >= 300 and a bot author's message have been
\* handled in one run
C10_Witness ==
    /\ \E i \in 1..Len(log) :
          ~log[i].bot /\ log[i].outcome.kind = "network_error" /\ log[i].processed
    /\ \E i \in 1..Len(log) :
          /\ ~log[i].bot
          /\ log[i].outcome.kind = "response"
          /\ log[i].outcome.status >= 300
          /\ log[i].processed
    /\ \E i \in 1..Len(log) : log[i].bot

----------------------------------------------------------------------------
(* The profile card flows: the numbers found in the taikei text are picked  *)
(* by the caller and handed to generate_profile_image, under SpecProfile    *)

MaxNums == 4

\* values re.findall(r"\d+", taikei_text) can yield: non-negative integers
ProfileNums == {0, 1, 3}

\* the lists of numbers a taikei text can hold
RawLists == UNION {[1..n -> ProfileNums] : n \in 0..MaxNums}

\* the flows in progress at once on the event loop: a registration and a
\* /profile_image command
Flows == {"on_submit", "profile_image"}

\* generate_profile_image(numbers): the numbers it draws as badges and as the
\* large centred text
generate_profile_image(numbers) == select_odd_even_odd(numbers)

\* ProfileModal.on_submit up to await user.display_avatar.read(): the numbers
\* of the taikei text are picked
on_submit(nums_raw) ==
    /\ res["on_submit"].phase = "idle"
    /\ LET picked_nums == IF nums_raw # << >> THEN select_odd_even_odd(nums_raw) ELSE << >>
       IN  res' = [res EXCEPT !["on_submit"] = [op |-> "profile", raw |-> nums_raw,
                                      picked |-> picked_nums, drawn |-> << >>,
                                      phase |-> "avatar"]]
    /\ UNCHANGED <<store, now, out, hist, raceVars, inp, done, log>>

\* ProfileModal.on_submit after the avatar was read or could not be read: the
\* card is drawn with picked_nums and posted
on_submit_resume ==
    /\ res["on_submit"].phase = "avatar"
    /\ res' = [res EXCEPT !["on_submit"] = [@ EXCEPT !.drawn = generate_profile_image(res["on_submit"].picked),
                                           !.phase = "done"]]
    /\ UNCHANGED <<store, now, out, hist, raceVars, inp, done, log>>

\* ProfileImageCog.profile_image for a registered user up to
\* await target.display_avatar.read(): a warning and return when the taikei
\* text holds no number, else the numbers are picked
profile_image(numbers_raw) ==
    /\ res["profile_image"].phase = "idle"
    /\ res' = [res EXCEPT !["profile_image"] =
                  IF numbers_raw = << >>
                  THEN [op |-> "no_numbers", raw |-> numbers_raw, picked |-> << >>,
                        drawn |-> << >>, phase |-> "done"]
                  ELSE [op |-> "profile_image", raw |-> numbers_raw,
                        picked |-> select_odd_even_odd(numbers_raw),
                        drawn |-> << >>, phase |-> "avatar"]]
    /\ UNCHANGED <<store, now, out, hist, raceVars, inp, done, log>>

\* ProfileImageCog.profile_image after the avatar was read or could not be
\* read: the card is drawn with picked_nums and sent with a message naming
\* picked_nums
profile_image_resume ==
    /\ res["profile_image"].phase = "avatar"
    /\ res' = [res EXCEPT !["profile_image"] = [@ EXCEPT !.drawn = generate_profile_image(res["profile_image"].picked),
                                           !.phase = "done"]]
    /\ UNCHANGED <<store, now, out, hist, raceVars, inp, done, log>>

InitProfile ==
    /\ res = [f \in Flows |-> [op |-> "none", raw |-> << >>, picked |-> << >>,
                               drawn |-> << >>, phase |-> "idle"]]
    /\ inp = << >>
    /\ done = FALSE
    /\ store = << >>
    /\ now = 0
    /\ out = NoOut
    /\ hist = << >>
    /\ pc = << >>
    /\ args = << >>
    /\ cur = << >>
    /\ store0 = << >>
    /\ log = << >>

NextProfile ==
    \/ \E nums_raw \in RawLists : on_submit(nums_raw)
    \/ on_submit_resume
    \/ \E numbers_raw \in RawLists : profile_image(numbers_raw)
    \/ profile_image_resume

SpecProfile == InitProfile /\ [][NextProfile]_vars

\* C13: on every list of non-negative integers select_odd_even_odd applied
\* twice gives what it gives applied once, so once a profile flow has drawn
\* its card the numbers generate_profile_image drew are exactly the numbers
\* the caller picked (and, for /profile_image, announced), whatever other
\* flow ran while it waited for the avatar.
C13_SelectionIdempotent ==
    \A f \in Flows :
        /\ select_odd_even_odd(select_odd_even_odd(res[f].raw)) = select_odd_even_odd(res[f].raw)
        /\ res[f].phase = "done" => res[f].drawn = res[f].picked

\* /profile_image drew an odd-even-odd pick whose two odd numbers differ,
\* taken from a longer list of which it is not the beginning, while a
\* registration that picked before it is still waiting for the avatar
C13_Witness ==
    /\ res["profile_image"].phase = "done"
    /\ Len(res["profile_image"].raw) > 3
    /\ Len(res["profile_image"].picked) = 3
    /\ res["profile_image"].picked[1] # res["profile_image"].picked[3]
    /\ res["profile_image"].picked # SubSeq(res["profile_image"].raw, 1, 3)
    /\ res["profile_image"].drawn = res["profile_image"].picked
    /\ res["on_submit"].phase = "avatar"
    /\ Len(res["on_submit"].picked) = 3

====
